---- MODULE Spec2Model ----
(***************************************************************************)
(* A model of the breadth-first site crawler of crawler.py: the robots     *)
(* policy, the sitemap seeder, the frontier / visited tracker and main     *)
(* loop, the hierarchy accumulator and the three record streams.           *)
(*                                                                         *)
(* Strings are sequences of one-character strings, so that prefix tests,   *)
(* parsing and lexicographic sorting are computed and not assumed.  The    *)
(* two sitemap tags "<loc>" and "</loc>" are single symbols.  None is the  *)
(* empty sequence where the code holds an Optional[str], and the string    *)
(* "None" where it holds an Optional[int].                                 *)
(***************************************************************************)
EXTENDS Integers, Sequences, FiniteSets, TLC

VARIABLES
    config,          \* the module-level configuration constants
    pc,              \* position of crawl(): start, seed, loop, flush, done
    rp,              \* state of the RobotFileParser
    robots_warning,  \* "No se pudo leer robots.txt" was logged
    sm_in,           \* the input of a stand-alone fetch_sitemap_urls call
    sm_urls,         \* the list fetch_sitemap_urls returned
    visited,         \* visited: Set[str]
    q,               \* q: deque of (url, parent, depth)
    hroot,           \* the hierarchy: node path -> __count
    inserted,        \* the paths insert_path was called with, in order
    pages_count,
    pages,           \* lines of data/pages.jsonl
    edges,           \* lines of data/edges.jsonl
    errors,          \* lines of data/errors.jsonl
    gets,            \* the URLs session.get was called with, in order
    popped,          \* the entries q.popleft() returned, in order
    last,            \* what the last loop iteration did with its entry
    crashed,         \* the outer "except Exception" was taken
    d3tree           \* the document written to data/hierarchy.json

vars == <<config, pc, rp, robots_warning, sm_in, sm_urls, visited, q, hroot,
          inserted, pages_count, pages, edges, errors, gets, popped, last, crashed, d3tree>>

----------------------------------------------------------------------------
(* Bounds of the model *)

MaxDepthBound == 1
MaxPagesBound == 1
MaxLinks == 1
MaxLines == 2
MaxSitemaps == 2
MaxInserts == 3

----------------------------------------------------------------------------
(* Strings *)

None == <<>>

\* The element of a one-element set.  The({e(v) : v \in {x}}) is e(x) with x
\* evaluated once, which keeps the nested string operators below linear.
The(S) == CHOOSE r \in S : TRUE

Ord(c) ==
    CASE c = " " -> 32
      [] c = "#" -> 35
      [] c = "/" -> 47
      [] c = ":" -> 58
      [] c = "<loc>" -> 60
      [] c = "</loc>" -> 61
      [] c = "a" -> 97
      [] c = "h" -> 104
      [] c = "o" -> 111
      [] c = "p" -> 112
      [] c = "s" -> 115

Range(s) == The({{v[i] : i \in 1..Len(v)} : v \in {s}})

StartsWith(s, prefix) ==
    \E v \in {s}, w \in {prefix} :
        /\ Len(w) <= Len(v)
        /\ \A i \in 1..Len(w) : v[i] = w[i]

EndsWith(s, suffix) ==
    \E v \in {s}, w \in {suffix} :
        /\ Len(w) <= Len(v)
        /\ \A i \in 1..Len(w) : v[Len(v) - Len(w) + i] = w[i]

\* str.replace(sym, "") for a one-symbol pattern
Remove(s, sym) == SelectSeq(s, LAMBDA c : c # sym)

\* the least and the greatest element of a non-empty set of numbers
Min(S) == CHOOSE i \in S : \A j \in S : i <= j
Max(S) == CHOOSE i \in S : \A j \in S : j <= i

\* str.strip()
Strip(s) ==
    The({ The({ IF keep = {} THEN <<>> ELSE SubSeq(v, Min(keep), Max(keep)) :
                keep \in {{i \in 1..Len(v) : v[i] # " "}} }) : v \in {s} })

\* a < b for Python strings: code-point lexicographic order
StrLess(a, b) ==
    \E v \in {a}, w \in {b} :
        \E i \in 1..Len(w) :
            /\ i <= Len(v) + 1
            /\ \A j \in 1..(i - 1) : v[j] = w[j]
            /\ \/ i = Len(v) + 1
               \/ Ord(v[i]) < Ord(w[i])

\* the first index >= from of s holding a symbol of C, Len(s)+1 when none
RECURSIVE Scan(_, _, _)
Scan(v, C, i) == IF i > Len(v) \/ v[i] \in C THEN i ELSE Scan(v, C, The({i + 1}))

FirstIdx(s, C, from) == The({ Scan(v, C, from) : v \in {s} })

\* str.split(sep) for a one-symbol separator
RECURSIVE Split(_, _)
Split(s, sep) ==
    The({ The({ IF k > Len(v) THEN <<v>>
                ELSE <<SubSeq(v, 1, k - 1)>> \o Split(SubSeq(v, k + 1, Len(v)), sep) :
                k \in {FirstIdx(v, {sep}, 1)} }) : v \in {s} })

\* sorted(S) of a set of strings
RECURSIVE Sorted(_)
Sorted(S) ==
    The({ IF T = {} THEN <<>>
          ELSE The({ <<m>> \o Sorted(T \ {m}) :
                     m \in {CHOOSE x \in T : \A y \in T \ {x} : StrLess(x, y)} }) :
          T \in {S} })

\* all sequences over S of length at most n
SeqsUpTo(S, n) == UNION {[1..k -> S] : k \in 0..n}

----------------------------------------------------------------------------
(* URLs *)

\* urllib.parse.urlparse, for the scheme://netloc/path#fragment shapes:
\* the scheme ends at the first ":" when that comes before any "/" or "#",
\* the netloc follows "//" up to the next "/" or "#", the fragment follows
\* the first "#"
urlparse(url) ==
    The({ The({ The({ The({ The({
        [scheme   |-> IF hasSch THEN SubSeq(u, 1, colon - 1) ELSE <<>>,
         netloc   |-> IF hasNet THEN SubSeq(rest, 3, netEnd - 1) ELSE <<>>,
         path     |-> SubSeq(tail, 1, FirstIdx(tail, {"#"}, 1) - 1),
         fragment |-> SubSeq(tail, FirstIdx(tail, {"#"}, 1) + 1, Len(tail))] :
        tail \in {SubSeq(rest, netEnd, Len(rest))} }) :
        hasNet \in {StartsWith(rest, <<"/", "/">>)},
        netEnd \in {IF StartsWith(rest, <<"/", "/">>)
                    THEN FirstIdx(rest, {"/", "#"}, 3) ELSE 1} }) :
        rest \in {IF hasSch THEN SubSeq(u, colon + 1, Len(u)) ELSE u} }) :
        hasSch \in {colon <= Len(u) /\ colon > 1 /\ colon < FirstIdx(u, {"/", "#"}, 1)} }) :
        u \in {url}, colon \in {FirstIdx(url, {":"}, 1)} })

\* the directory of a path: up to and with its last "/"
DirOf(path) ==
    The({ IF slash = {} THEN <<"/">> ELSE SubSeq(path, 1, Max(slash)) :
          slash \in {{i \in 1..Len(path) : path[i] = "/"}} })

\* urllib.parse.urljoin: a reference with another scheme or with a netloc
\* stands as it is, a rooted path replaces the base's path, any other path
\* replaces the base path's last segment
urljoin(base, href) ==
    The({ The({
        IF r = <<>> THEN base
        ELSE IF h.scheme # <<>> /\ h.scheme # b.scheme THEN r
        ELSE IF h.netloc # <<>> THEN r
        ELSE IF h.path = <<>> THEN head \o b.path \o frag
        ELSE IF h.path[1] = "/" THEN head \o h.path \o frag
        ELSE head \o DirOf(b.path) \o h.path \o frag :
        head \in {b.scheme \o <<":", "/", "/">> \o b.netloc},
        frag \in {IF h.fragment = <<>> THEN <<>> ELSE <<"#">> \o h.fragment} }) :
        r \in {href}, b \in {urlparse(base)}, h \in {urlparse(href)} })

\* urllib.parse.urldefrag(u)[0]
urldefrag(url) == The({ SubSeq(u, 1, FirstIdx(u, {"#"}, 1) - 1) : u \in {url} })

normalize_url(base, href) == urldefrag(urljoin(base, href))

same_origin(a, b) ==
    \E pa \in {urlparse(a)}, pb \in {urlparse(b)} :
        <<pa.scheme, pa.netloc>> = <<pb.scheme, pb.netloc>>

----------------------------------------------------------------------------
(* Configuration *)

\* the seed URLs the model runs with: "s://h/p" and the path-less "s://h"
SeedP == <<"s", ":", "/", "/", "h", "/", "p">>
SeedRoot == <<"s", ":", "/", "/", "h">>
Seeds == {SeedP, SeedRoot}

\* MAX_PAGES is float('inf') or a number
MaxPagesValues ==
    {[inf |-> TRUE, n |-> 0]} \cup {[inf |-> FALSE, n |-> k] : k \in 0..MaxPagesBound}

Configs ==
    [BASE_URL : Seeds,
     MAX_PAGES : MaxPagesValues,
     MAX_DEPTH : 0..MaxDepthBound,
     OBEY_ROBOTS : BOOLEAN,
     USE_SITEMAP : BOOLEAN,
     RECORD_BLOCKED_URLS : BOOLEAN]

BASE_URL == config.BASE_URL
MAX_PAGES == config.MAX_PAGES
MAX_DEPTH == config.MAX_DEPTH
OBEY_ROBOTS == config.OBEY_ROBOTS
USE_SITEMAP == config.USE_SITEMAP
RECORD_BLOCKED_URLS == config.RECORD_BLOCKED_URLS

\* BelowMaxPages with the loop test off by one
BelowMaxPages_OffByOne(count) == MAX_PAGES.inf \/ count <= MAX_PAGES.n

\* pages_count < MAX_PAGES
BelowMaxPages(count) == MAX_PAGES.inf \/ count < MAX_PAGES.n

\* origin = f"{parsed_base.scheme}://{parsed_base.netloc}"
OriginOf(base) ==
    LET parsed_base == urlparse(base)
    IN  parsed_base.scheme \o <<":", "/", "/">> \o parsed_base.netloc

\* base_prefix = origin + urlparse(base_url).path
BasePrefixOf(base) == OriginOf(base) \o urlparse(base).path

----------------------------------------------------------------------------
(* Sitemap seeder *)

LocLine(body) == <<"<loc>">> \o body \o <<"</loc>">>

\* the lines a sitemap document is made of in the model: the seed page, a
\* padded child page, and a location on another host that shares the
\* path-less seed's prefix
SitemapLines ==
    {LocLine(SeedP),
     <<" ">> \o LocLine(<<" ">> \o SeedP \o <<"/", "a", " ">>),
     LocLine(SeedRoot \o <<"o", "/", "p">>)}

\* what requests.get(sm) gives: an exception, or a status and the text's
\* lines; one document holds a location whose closing tag is on another line
SitemapResponses ==
    {[kind |-> "exception", status_code |-> "None", lines |-> <<>>],
     [kind |-> "response", status_code |-> "404", lines |-> <<LocLine(SeedP)>>],
     [kind |-> "response", status_code |-> "200",
      lines |-> <<<<"<loc>">> \o SeedP \o <<"/", "a">>, <<"</loc>">>>>]}
    \cup {[kind |-> "response", status_code |-> "200", lines |-> l] :
            l \in SeqsUpTo(SitemapLines, MaxLines)}

\* one response per entry of SITEMAP_URLS
SitemapInputs == UNION {[1..k -> SitemapResponses] : k \in 1..MaxSitemaps}

\* SITEMAP_URLS as configured holds one sitemap
CrawlSitemapInputs == [1..1 -> SitemapResponses]

\* the inner loop over resp.text.splitlines(): the matching locs, in order
RECURSIVE sitemap_lines(_, _)
sitemap_lines(lines, base_prefix) ==
    IF lines = <<>> THEN <<>>
    ELSE LET line == Strip(Head(lines))
             loc  == Strip(Remove(Remove(line, "<loc>"), "</loc>"))
             hit  == /\ StartsWith(line, <<"<loc>">>)
                     /\ EndsWith(line, <<"</loc>">>)
                     /\ StartsWith(loc, base_prefix)
         IN  (IF hit THEN <<loc>> ELSE <<>>)
             \o sitemap_lines(Tail(lines), base_prefix)

\* the outer loop over SITEMAP_URLS: the list urls before deduplication
RECURSIVE sitemap_collect(_, _)
sitemap_collect(docs, base_prefix) ==
    IF docs = <<>> THEN <<>>
    ELSE LET resp == Head(docs)
             got  == IF /\ resp.kind = "response"
                        /\ resp.status_code = "200"
                        /\ resp.lines # <<>>
                     THEN sitemap_lines(resp.lines, base_prefix)
                     ELSE <<>>
         IN  got \o sitemap_collect(Tail(docs), base_prefix)

fetch_sitemap_urls_unfiltered(docs, base_prefix) ==
    Sorted(Range(sitemap_collect(docs, <<>>)))

fetch_sitemap_urls_unsorted(docs, base_prefix) ==
    sitemap_collect(docs, base_prefix)

fetch_sitemap_urls(docs, base_prefix) ==
    Sorted(Range(sitemap_collect(docs, base_prefix)))

----------------------------------------------------------------------------
(* Hierarchy builder: a tree is a function from node paths (sequences of    *)
(* segments) to the node's __count; the root is the empty path.             *)

EmptyHierarchy == [p \in {<<>>} |-> 0]

\* insert_from counting at the node the path ends at only
RECURSIVE insert_from_terminal_only(_, _, _)
insert_from_terminal_only(h, node, path_segments) ==
    IF path_segments = <<>> THEN h
    ELSE LET seg == Head(path_segments)
         IN  IF seg = <<>>
             THEN insert_from_terminal_only(h, node, Tail(path_segments))
             ELSE LET child == Append(node, seg)
                      rest  == SelectSeq(Tail(path_segments), LAMBDA s : s # <<>>)
                      h1 == IF child \in DOMAIN h THEN h
                            ELSE [p \in DOMAIN h \cup {child} |->
                                    IF p = child THEN 0 ELSE h[p]]
                      h2 == IF rest = <<>> THEN [h1 EXCEPT ![child] = @ + 1] ELSE h1
                  IN  insert_from_terminal_only(h2, child, Tail(path_segments))

RECURSIVE insert_from(_, _, _)
insert_from(h, node, path_segments) ==
    IF path_segments = <<>> THEN h
    ELSE LET seg == Head(path_segments)
         IN  IF seg = <<>>
             THEN insert_from(h, node, Tail(path_segments))
             ELSE LET child == Append(node, seg)
                      h1 == IF child \in DOMAIN h THEN h
                            ELSE [p \in DOMAIN h \cup {child} |->
                                    IF p = child THEN 0 ELSE h[p]]
                      h2 == [h1 EXCEPT ![child] = @ + 1]
                  IN  insert_from(h2, child, Tail(path_segments))

insert_path(h, path_segments) == insert_from(h, <<>>, path_segments)

children_map(h, node) ==
    {p \in DOMAIN h : Len(p) = Len(node) + 1 /\ SubSeq(p, 1, Len(node)) = node}

\* the keys of a node's children: the last segment of each child's path
child_keys(h, node) == {p[Len(p)] : p \in children_map(h, node)}

\* hierarchy_to_d3 listing the children in descending order
RECURSIVE hierarchy_to_d3_descending(_, _, _)
hierarchy_to_d3_descending(h, node, name) ==
    LET keys == Sorted(child_keys(h, node))
    IN  IF keys # <<>>
        THEN [name |-> name,
              children |-> [i \in 1..Len(keys) |->
                  hierarchy_to_d3_descending(h, Append(node, keys[Len(keys) + 1 - i]),
                                             keys[Len(keys) + 1 - i])]]
        ELSE [name |-> name, value |-> h[node]]

\* hierarchy_to_d3 giving every leaf the default value 1
RECURSIVE hierarchy_to_d3_unit_values(_, _, _)
hierarchy_to_d3_unit_values(h, node, name) ==
    LET keys == Sorted(child_keys(h, node))
    IN  IF keys # <<>>
        THEN [name |-> name,
              children |-> [i \in 1..Len(keys) |->
                  hierarchy_to_d3_unit_values(h, Append(node, keys[i]), keys[i])]]
        ELSE [name |-> name, value |-> 1]

RECURSIVE hierarchy_to_d3(_, _, _)
hierarchy_to_d3(h, node, name) ==
    LET kids == children_map(h, node)
        keys == Sorted({p[Len(p)] : p \in kids})
    IN  IF kids # {}
        THEN [name |-> name,
              children |-> [i \in 1..Len(keys) |->
                  hierarchy_to_d3(h, Append(node, keys[i]), keys[i])]]
        ELSE [name |-> name, value |-> h[node]]

\* segs = [seg for seg in up.path.split("/") if seg]
PathSegments(url) == SelectSeq(Split(urlparse(url).path, "/"), LAMBDA seg : seg # <<>>)

----------------------------------------------------------------------------
(* Robots policy: urllib.robotparser.RobotFileParser *)

\* how rp.read() can end
RobotsReads == {"parsed", "http_401_403", "http_4xx", "http_5xx", "exception"}

\* the parser's state after read(): only a parsed file sets last_checked
rp_after_read(how) ==
    CASE how = "parsed" -> "parsed"
      [] how = "http_401_403" -> "disallow_all"
      [] how = "http_4xx" -> "allow_all"
      [] OTHER -> "unread"

\* the answers rp.can_fetch(agent, url) can give in a state of the parser:
\* without a file read (last_checked = 0) no URL is allowable
can_fetch(state) ==
    CASE state = "disallow_all" -> {"deny"}
      [] state = "allow_all" -> {"allow"}
      [] state = "unread" -> {"deny"}
      [] state = "parsed" -> {"allow", "deny", "raise"}

----------------------------------------------------------------------------
(* Fetcher and page extractor *)

\* the anchors a page holds in the model: a rooted path, the seed page with
\* a fragment, a page of another host, and a path relative to the page
Hrefs ==
    {<<"/", "p", "/", "a">>,
     SeedP \o <<"#", "a">>,
     SeedRoot \o <<"o", "/", "p">>}

HrefLists == SeqsUpTo(Hrefs, MaxLinks)

NoResponse ==
    [kind |-> "none", status_code |-> "None", html |-> FALSE, url |-> None,
     title |-> "", description |-> "", canonical |-> None, hrefs |-> <<>>]

\* what session.get(url) gives: a RequestException, or a response (a status,
\* whether the Content-Type is HTML, the final URL, and the parsed body)
PageResponses(url) ==
    {[NoResponse EXCEPT !.kind = "error"],
     [NoResponse EXCEPT !.kind = "response", !.status_code = "404", !.url = url,
                        !.title = "T", !.hrefs = <<<<"/", "p", "/", "a">>>>],
     [NoResponse EXCEPT !.kind = "response", !.status_code = "200", !.url = url,
                        !.html = TRUE],
     [NoResponse EXCEPT !.kind = "response", !.status_code = "200", !.html = TRUE,
                        !.url = SeedRoot \o <<"o", "/", "p">>,
                        !.title = "T", !.description = "D", !.canonical = url,
                        !.hrefs = <<<<"/", "p", "/", "a">>>>]}
    \cup {[NoResponse EXCEPT !.kind = "response", !.status_code = "200", !.url = url,
                             !.html = TRUE, !.title = "T", !.description = "D",
                             !.canonical = url, !.hrefs = l] : l \in HrefLists}

extract_meta(resp) ==
    [title |-> IF resp.title # "" THEN resp.title ELSE "SIN_TITULO",
     meta_description |->
        IF resp.description # "" THEN resp.description ELSE "SIN_DESCRIPCION"]

\* links_to_enqueue keeping the candidates of every origin
links_to_enqueue_any_origin(origin, resp) ==
    IF resp.kind = "response" /\ resp.html
    THEN LET cand == [i \in 1..Len(resp.hrefs) |-> normalize_url(resp.url, resp.hrefs[i])]
         IN  SelectSeq(cand, LAMBDA c : c # <<>>)
    ELSE <<>>

\* the candidates of the anchors, same-origin ones kept, in document order
links_to_enqueue(origin, resp) ==
    IF resp.kind = "response" /\ resp.html
    THEN LET cand == [i \in 1..Len(resp.hrefs) |-> normalize_url(resp.url, resp.hrefs[i])]
         IN  SelectSeq(cand, LAMBDA c : c # <<>> /\ same_origin(origin, c))
    ELSE <<>>

PageRecord(url, status_code, title, meta_description, canonical, parent_url, depth) ==
    [url |-> url, status_code |-> status_code, title |-> title,
     meta_description |-> meta_description, canonical |-> canonical,
     parent_url |-> parent_url, depth |-> depth]

\* FetchedRecord without the defaults of lines 306-309
FetchedRecord_NoDefaults(entry, resp) ==
    PageRecord(entry.url, resp.status_code, resp.title, resp.description,
               resp.canonical, entry.parent, entry.depth)

\* the record of a fetched page: the defaults of lines 306-309 unless the
\* response is HTML
FetchedRecord(entry, resp) ==
    LET isHtml == resp.kind = "response" /\ resp.html
        meta   == extract_meta(resp)
    IN  PageRecord(entry.url,
                   resp.status_code,
                   IF isHtml THEN meta.title ELSE "SIN_TITULO",
                   IF isHtml THEN meta.meta_description ELSE "SIN_DESCRIPCION",
                   IF isHtml THEN resp.canonical ELSE None,
                   entry.parent, entry.depth)

BlockedRecord(entry) ==
    PageRecord(entry.url, "None", "BLOQUEADA_POR_ROBOTS", "BLOQUEADA_POR_ROBOTS",
               None, entry.parent, entry.depth)

----------------------------------------------------------------------------
(* crawl() *)

Entry(url, parent, depth) == [url |-> url, parent |-> parent, depth |-> depth]

NoEntry == Entry(None, None, 0)

Idle == [op |-> "none", entry |-> NoEntry, robots |-> "not_asked",
         fetch |-> "not_called", links |-> <<>>]

Init ==
    /\ config \in Configs
    /\ pc = "start"
    /\ rp = "unread"
    /\ robots_warning = FALSE
    /\ sm_in = [docs |-> <<>>, base_prefix |-> <<>>]
    /\ sm_urls = <<>>
    /\ visited = {}
    /\ q = <<>>
    /\ hroot = EmptyHierarchy
    /\ inserted = <<>>
    /\ pages_count = 0
    /\ pages = <<>>
    /\ edges = <<>>
    /\ errors = <<>>
    /\ gets = <<>>
    /\ popped = <<>>
    /\ last = Idle
    /\ crashed = FALSE
    /\ d3tree = [name |-> None, value |-> 0]

\* lines 245-253: the robots file is read only when OBEY_ROBOTS
ReadRobots ==
    /\ pc = "start"
    /\ \E how \in RobotsReads :
        /\ rp' = IF OBEY_ROBOTS THEN rp_after_read(how) ELSE rp
        /\ robots_warning' = (OBEY_ROBOTS /\ how = "exception")
    /\ pc' = "seed"
    /\ UNCHANGED <<config, inserted, sm_in, sm_urls, visited, q, hroot, pages_count, pages,
                   edges, errors, gets, popped, last, crashed, d3tree>>

\* SitemapEntries seeding one level below the seed's children
SitemapEntries_DepthTwo(urls, vis) ==
    LET keep == SelectSeq(urls, LAMBDA u : u \notin vis)
    IN  [i \in 1..Len(keep) |-> [url |-> keep[i], parent |-> BASE_URL, depth |-> 2]]

\* SitemapEntries seeding at the seed's own depth
SitemapEntries_DepthZero(urls, vis) ==
    LET keep == SelectSeq(urls, LAMBDA u : u \notin vis)
    IN  [i \in 1..Len(keep) |-> [url |-> keep[i], parent |-> BASE_URL, depth |-> 0]]

\* the entries lines 265-267 append for the sitemap's URLs
SitemapEntries(urls, vis) ==
    LET keep == SelectSeq(urls, LAMBDA u : u \notin vis)
    IN  [i \in 1..Len(keep) |-> Entry(keep[i], BASE_URL, 1)]

\* lines 257-268: the frontier starts with the seed, then the sitemap's URLs
SeedFrontier ==
    /\ pc = "seed"
    /\ \E docs \in CrawlSitemapInputs :
        LET urls == IF USE_SITEMAP
                    THEN fetch_sitemap_urls(docs, BasePrefixOf(BASE_URL))
                    ELSE <<>>
        IN  /\ sm_urls' = urls
            /\ q' = <<Entry(BASE_URL, None, 0)>> \o SitemapEntries(urls, visited)
    /\ pc' = "loop"
    /\ UNCHANGED <<config, inserted, rp, robots_warning, sm_in, visited, hroot, pages_count,
                   pages, edges, errors, gets, popped, last, crashed, d3tree>>

\* while q and pages_count < MAX_PAGES
LoopRuns == pc = "loop" /\ q # <<>> /\ BelowMaxPages(pages_count)

\* Verdict without one of its three tests
Verdict_NoDuplicateTest(entry) ==
    IF entry.depth > MAX_DEPTH THEN "skip_depth"
    ELSE IF ~same_origin(BASE_URL, entry.url) THEN "skip_origin"
    ELSE "admit"

Verdict_NoDepthTest(entry) ==
    IF ~same_origin(BASE_URL, entry.url) THEN "skip_origin"
    ELSE IF entry.url \in visited THEN "skip_dup"
    ELSE "admit"

Verdict_NoOriginTest(entry) ==
    IF entry.depth > MAX_DEPTH THEN "skip_depth"
    ELSE IF entry.url \in visited THEN "skip_dup"
    ELSE "admit"

\* lines 282-290: the three skips, in the code's order
Verdict(entry) ==
    IF entry.depth > MAX_DEPTH THEN "skip_depth"
    ELSE IF ~same_origin(BASE_URL, entry.url) THEN "skip_origin"
    ELSE IF entry.url \in visited THEN "skip_dup"
    ELSE "admit"

\* Skip counting the skipped entry as a page
Skip_CountsPage(why) ==
    /\ q' = Tail(q)
    /\ popped' = Append(popped, Head(q))
    /\ pages_count' = pages_count + 1
    /\ last' = [Idle EXCEPT !.op = why, !.entry = Head(q)]
    /\ UNCHANGED <<config, inserted, pc, rp, robots_warning, sm_in, sm_urls, visited, hroot,
                   pages, edges, errors, gets, crashed, d3tree>>

\* Skip marking the skipped URL visited
Skip_MarksVisited(why) ==
    /\ q' = Tail(q)
    /\ popped' = Append(popped, Head(q))
    /\ visited' = visited \cup {Head(q).url}
    /\ last' = [Idle EXCEPT !.op = why, !.entry = Head(q)]
    /\ UNCHANGED <<config, inserted, pc, rp, robots_warning, sm_in, sm_urls, hroot,
                   pages_count, pages, edges, errors, gets, crashed, d3tree>>

\* Skip leaving the entry at the head of the frontier
Skip_NoDequeue(why) ==
    /\ last' = [Idle EXCEPT !.op = why, !.entry = Head(q)]
    /\ UNCHANGED <<config, inserted, pc, rp, robots_warning, sm_in, sm_urls, visited, hroot,
                   pages_count, pages, edges, errors, gets, crashed, d3tree, q, popped>>

\* a skipped entry is dequeued and nothing else happens to it
Skip(why) ==
    /\ q' = Tail(q)
    /\ popped' = Append(popped, Head(q))
    /\ last' = [Idle EXCEPT !.op = why, !.entry = Head(q)]
    /\ UNCHANGED <<config, inserted, pc, rp, robots_warning, sm_in, sm_urls, visited, hroot,
                   pages_count, pages, edges, errors, gets, crashed, d3tree>>

SkipDepth ==
    /\ LoopRuns
    /\ Verdict(Head(q)) = "skip_depth"
    /\ Skip("skip_depth")

SkipOrigin ==
    /\ LoopRuns
    /\ Verdict(Head(q)) = "skip_origin"
    /\ Skip("skip_origin")

SkipDuplicate ==
    /\ LoopRuns
    /\ Verdict(Head(q)) = "skip_dup"
    /\ Skip("skip_dup")

\* lines 292-304: the answers of the robots check for an admitted entry
RobotsAnswers == IF OBEY_ROBOTS THEN can_fetch(rp) ELSE {"not_asked"}

\* RobotsBlocked inserting the blocked URL's path into the hierarchy
RobotsBlocked_Inserts ==
    /\ LoopRuns
    /\ Verdict(Head(q)) = "admit"
    /\ "deny" \in RobotsAnswers
    /\ q' = Tail(q)
    /\ popped' = Append(popped, Head(q))
    /\ visited' = visited \cup {Head(q).url}
    /\ pages' = IF RECORD_BLOCKED_URLS
                THEN Append(pages, BlockedRecord(Head(q))) ELSE pages
    /\ pages_count' = IF RECORD_BLOCKED_URLS THEN pages_count + 1 ELSE pages_count
    /\ hroot' = insert_path(hroot, PathSegments(Head(q).url))
    /\ inserted' = Append(inserted, PathSegments(Head(q).url))
    /\ last' = [Idle EXCEPT !.op = "blocked", !.entry = Head(q), !.robots = "deny"]
    /\ UNCHANGED <<config, pc, rp, robots_warning, sm_in, sm_urls, edges, errors, gets,
                   crashed, d3tree>>

\* RobotsBlocked without pages_count += 1
RobotsBlocked_NotCounted ==
    /\ LoopRuns
    /\ Verdict(Head(q)) = "admit"
    /\ "deny" \in RobotsAnswers
    /\ q' = Tail(q)
    /\ popped' = Append(popped, Head(q))
    /\ visited' = visited \cup {Head(q).url}
    /\ pages' = IF RECORD_BLOCKED_URLS
                THEN Append(pages, BlockedRecord(Head(q))) ELSE pages
    /\ last' = [Idle EXCEPT !.op = "blocked", !.entry = Head(q), !.robots = "deny"]
    /\ UNCHANGED <<config, inserted, pc, rp, robots_warning, sm_in, sm_urls, hroot,
                   pages_count, edges, errors, gets, crashed, d3tree>>

\* RobotsBlocked without visited.add(url)
RobotsBlocked_NotVisited ==
    /\ LoopRuns
    /\ Verdict(Head(q)) = "admit"
    /\ "deny" \in RobotsAnswers
    /\ q' = Tail(q)
    /\ popped' = Append(popped, Head(q))
    /\ pages' = IF RECORD_BLOCKED_URLS
                THEN Append(pages, BlockedRecord(Head(q))) ELSE pages
    /\ pages_count' = IF RECORD_BLOCKED_URLS THEN pages_count + 1 ELSE pages_count
    /\ last' = [Idle EXCEPT !.op = "blocked", !.entry = Head(q), !.robots = "deny"]
    /\ UNCHANGED <<config, inserted, pc, rp, robots_warning, sm_in, sm_urls, visited, hroot,
                   edges, errors, gets, crashed, d3tree>>

\* lines 295-302: a disallowed URL is marked visited and, when
\* RECORD_BLOCKED_URLS, recorded; nothing is fetched
RobotsBlocked ==
    /\ LoopRuns
    /\ Verdict(Head(q)) = "admit"
    /\ "deny" \in RobotsAnswers
    /\ LET entry == Head(q)
       IN  /\ q' = Tail(q)
           /\ popped' = Append(popped, entry)
           /\ visited' = visited \cup {entry.url}
           /\ pages' = IF RECORD_BLOCKED_URLS
                       THEN Append(pages, BlockedRecord(entry)) ELSE pages
           /\ pages_count' = IF RECORD_BLOCKED_URLS THEN pages_count + 1 ELSE pages_count
           /\ last' = [Idle EXCEPT !.op = "blocked", !.entry = entry, !.robots = "deny"]
    /\ UNCHANGED <<config, inserted, pc, rp, robots_warning, sm_in, sm_urls, hroot, edges,
                   errors, gets, crashed, d3tree>>

\* ChildEdges writing the edge before the visited test
ChildEdges_EveryLink(entry, links, vis) ==
    [i \in 1..Len(links) |-> [source |-> entry.url, target |-> links[i]]]

\* ChildEntries testing the depth limit before the push
ChildEntries_WithinDepth(entry, links, vis) ==
    LET keep == SelectSeq(links, LAMBDA child :
                    child \notin vis /\ entry.depth + 1 <= MAX_DEPTH)
    IN  [i \in 1..Len(keep) |-> [url |-> keep[i], parent |-> entry.url,
                                 depth |-> entry.depth + 1]]

\* ChildEntries pushing every link, visited target or not
ChildEntries_EveryLink(entry, links, vis) ==
    [i \in 1..Len(links) |-> [url |-> links[i], parent |-> entry.url,
                              depth |-> entry.depth + 1]]

\* lines 341-345: the children pushed, and the edges written, for the links
ChildEntries(entry, links, vis) ==
    LET keep == SelectSeq(links, LAMBDA child : child \notin vis)
    IN  [i \in 1..Len(keep) |-> Entry(keep[i], entry.url, entry.depth + 1)]

ChildEdges(entry, links, vis) ==
    LET keep == SelectSeq(links, LAMBDA child : child \notin vis)
    IN  [i \in 1..Len(keep) |-> [source |-> entry.url, target |-> keep[i]]]

\* lines 306-347: the fetch, the page record, the hierarchy insert and the
\* children, for one of the given outcomes of the request
FetchFrom(responses) ==
    /\ LET entry == Head(q)
           vis   == visited \cup {entry.url}
       IN  /\ popped' = Append(popped, entry)
           /\ gets' = Append(gets, entry.url)
           /\ visited' = vis
           /\ pages_count' = pages_count + 1
           /\ hroot' = insert_path(hroot, PathSegments(entry.url))
           /\ inserted' = Append(inserted, PathSegments(entry.url))
           /\ \E resp \in responses :
               LET links == links_to_enqueue(OriginOf(BASE_URL), resp)
               IN  /\ errors' = IF resp.kind = "error"
                                THEN Append(errors, [url |-> entry.url]) ELSE errors
                   /\ pages' = Append(pages, FetchedRecord(entry, resp))
                   /\ q' = Tail(q) \o ChildEntries(entry, links, vis)
                   /\ edges' = edges \o ChildEdges(entry, links, vis)
                   /\ \E answer \in RobotsAnswers \ {"deny"} :
                       last' = [op |-> "fetched", entry |-> entry, robots |-> answer,
                                fetch |-> resp.kind, links |-> links]
    /\ UNCHANGED <<config, pc, rp, robots_warning, sm_in, sm_urls, crashed, d3tree>>

\* an admitted entry on a site that may answer anything
Fetch ==
    /\ LoopRuns
    /\ Verdict(Head(q)) = "admit"
    /\ FetchFrom(PageResponses(Head(q).url))

\* lines 349-350: an exception that is no RequestException, raised by the
\* fetch or the parse of an admitted entry, leaves the loop
FetchCrash ==
    /\ LoopRuns
    /\ Verdict(Head(q)) = "admit"
    /\ \E answer \in RobotsAnswers \ {"deny"} :
        /\ popped' = Append(popped, Head(q))
        /\ gets' = Append(gets, Head(q).url)
        /\ q' = Tail(q)
        /\ last' = [Idle EXCEPT !.op = "crash", !.entry = Head(q), !.robots = answer,
                                !.fetch = "crash"]
    /\ crashed' = TRUE
    /\ pc' = "flush"
    /\ UNCHANGED <<config, inserted, rp, robots_warning, sm_in, sm_urls, visited, hroot,
                   pages_count, pages, edges, errors, d3tree>>

\* line 278: the loop condition is false
ExitLoop ==
    /\ pc = "loop"
    /\ ~(q # <<>> /\ BelowMaxPages(pages_count))
    /\ pc' = "flush"
    /\ UNCHANGED <<config, inserted, rp, robots_warning, sm_in, sm_urls, visited, q, hroot,
                   pages_count, pages, edges, errors, gets, popped, last, crashed,
                   d3tree>>

\* WriteHierarchy leaving the document unwritten after a crash
WriteHierarchy_NotAfterCrash ==
    /\ pc = "flush"
    /\ d3tree' = IF crashed THEN d3tree
                 ELSE hierarchy_to_d3(hroot, <<>>, urlparse(BASE_URL).netloc)
    /\ pc' = "done"
    /\ UNCHANGED <<config, inserted, rp, robots_warning, sm_in, sm_urls, visited, q, hroot,
                   pages_count, pages, edges, errors, gets, popped, last, crashed>>

\* lines 354-356
WriteHierarchy ==
    /\ pc = "flush"
    /\ d3tree' = hierarchy_to_d3(hroot, <<>>, urlparse(BASE_URL).netloc)
    /\ pc' = "done"
    /\ UNCHANGED <<config, inserted, rp, robots_warning, sm_in, sm_urls, visited, q, hroot,
                   pages_count, pages, edges, errors, gets, popped, last, crashed>>

Next ==
    \/ ReadRobots
    \/ SeedFrontier
    \/ SkipDepth
    \/ SkipOrigin
    \/ SkipDuplicate
    \/ RobotsBlocked
    \/ Fetch
    \/ FetchCrash
    \/ ExitLoop
    \/ WriteHierarchy

Spec == Init /\ [][Next]_vars

\* crawl() is one sequential thread and every request has a timeout: a step
\* that can be taken is taken
SpecTerminating == Spec /\ WF_vars(Next)

----------------------------------------------------------------------------
(* fetch_sitemap_urls on its own: any documents, either seed's prefix *)

DefaultConfig ==
    [BASE_URL |-> SeedP, MAX_PAGES |-> [inf |-> TRUE, n |-> 0], MAX_DEPTH |-> 0,
     OBEY_ROBOTS |-> FALSE, USE_SITEMAP |-> TRUE, RECORD_BLOCKED_URLS |-> TRUE]

SitemapInit ==
    /\ config = DefaultConfig
    /\ pc = "sitemap_call"
    /\ rp = "unread"
    /\ robots_warning = FALSE
    /\ sm_in \in [docs : SitemapInputs, base_prefix : {BasePrefixOf(s) : s \in Seeds}]
    /\ sm_urls = <<>>
    /\ visited = {}
    /\ q = <<>>
    /\ hroot = EmptyHierarchy
    /\ inserted = <<>>
    /\ pages_count = 0
    /\ pages = <<>>
    /\ edges = <<>>
    /\ errors = <<>>
    /\ gets = <<>>
    /\ popped = <<>>
    /\ last = Idle
    /\ crashed = FALSE
    /\ d3tree = [name |-> None, value |-> 0]

CallFetchSitemapUrls ==
    /\ pc = "sitemap_call"
    /\ sm_urls' = fetch_sitemap_urls(sm_in.docs, sm_in.base_prefix)
    /\ pc' = "sitemap_returned"
    /\ UNCHANGED <<config, inserted, rp, robots_warning, sm_in, visited, q, hroot, pages_count,
                   pages, edges, errors, gets, popped, last, crashed, d3tree>>

SitemapNext == CallFetchSitemapUrls

SpecSitemap == SitemapInit /\ [][SitemapNext]_vars

----------------------------------------------------------------------------
(* insert_path and hierarchy_to_d3 on their own: any paths, in any order,   *)
(* empty segments and repeated paths included                               *)

HierarchyPaths ==
    { <<>>,
      << <<"p">> >>,
      << <<"a">> >>,
      << <<"p">>, <<"a">> >>,
      << <<>>, <<"p">>, <<>> >>,
      << <<"p">>, <<"p", "a">> >> }

HierarchyInit ==
    /\ config = DefaultConfig
    /\ pc = "hierarchy"
    /\ rp = "unread"
    /\ robots_warning = FALSE
    /\ sm_in = [docs |-> <<>>, base_prefix |-> <<>>]
    /\ sm_urls = <<>>
    /\ visited = {}
    /\ q = <<>>
    /\ hroot = EmptyHierarchy
    /\ inserted = <<>>
    /\ pages_count = 0
    /\ pages = <<>>
    /\ edges = <<>>
    /\ errors = <<>>
    /\ gets = <<>>
    /\ popped = <<>>
    /\ last = Idle
    /\ crashed = FALSE
    /\ d3tree = [name |-> None, value |-> 0]

CallInsertPath ==
    /\ pc = "hierarchy"
    /\ Len(inserted) < MaxInserts
    /\ \E path_segments \in HierarchyPaths :
        /\ hroot' = insert_path(hroot, path_segments)
        /\ inserted' = Append(inserted, path_segments)
    /\ UNCHANGED <<config, pc, rp, robots_warning, sm_in, sm_urls, visited, q,
                   pages_count, pages, edges, errors, gets, popped, last, crashed,
                   d3tree>>

CallHierarchyToD3 ==
    /\ pc = "hierarchy"
    /\ d3tree' = hierarchy_to_d3(hroot, <<>>, <<"/">>)
    /\ pc' = "rendered"
    /\ UNCHANGED <<config, inserted, rp, robots_warning, sm_in, sm_urls, visited, q,
                   hroot, pages_count, pages, edges, errors, gets, popped, last,
                   crashed>>

HierarchyNext ==
    \/ CallInsertPath
    \/ CallHierarchyToD3

SpecHierarchy == HierarchyInit /\ [][HierarchyNext]_vars

----------------------------------------------------------------------------
(* The crawl of one small site: the seed page s://h/p links to /p/a and to  *)
(* s://ho/p of another host, and s://h/p/a has no links.  MAX_DEPTH is 1,   *)
(* robots and the sitemap are off, MAX_PAGES leaves room for both pages.    *)
(* Status codes, titles, the order of the two links and the outcome of the  *)
(* second request are left open.                                            *)

PageA == SeedP \o <<"/", "a">>
OtherHost == SeedRoot \o <<"o", "/", "p">>

ScenarioConfigs ==
    [BASE_URL : {SeedP},
     MAX_PAGES : {m \in MaxPagesValues : m.inf \/ m.n >= 2},
     MAX_DEPTH : {1},
     OBEY_ROBOTS : {FALSE},
     USE_SITEMAP : {FALSE},
     RECORD_BLOCKED_URLS : BOOLEAN]

ScenarioResponses(url) ==
    IF url = SeedP
    THEN {[NoResponse EXCEPT !.kind = "response", !.html = TRUE, !.url = url,
                             !.status_code = st, !.title = m[1], !.description = m[2],
                             !.hrefs = l] :
             st \in {"200", "404"},
             m \in {<<"", "">>, <<"T", "D">>},
             l \in {<< <<"/", "p", "/", "a">>, OtherHost >>,
                    << OtherHost, <<"/", "p", "/", "a">> >>}}
    ELSE IF url = PageA
    THEN {[NoResponse EXCEPT !.kind = "error"],
          [NoResponse EXCEPT !.kind = "response", !.status_code = "404", !.url = url],
          [NoResponse EXCEPT !.kind = "response", !.status_code = "200", !.url = url,
                             !.html = TRUE],
          [NoResponse EXCEPT !.kind = "response", !.status_code = "200", !.url = url,
                             !.html = TRUE, !.title = "T", !.description = "D",
                             !.canonical = url]}
    ELSE {}

ScenarioInit ==
    /\ config \in ScenarioConfigs
    /\ pc = "start"
    /\ rp = "unread"
    /\ robots_warning = FALSE
    /\ sm_in = [docs |-> <<>>, base_prefix |-> <<>>]
    /\ sm_urls = <<>>
    /\ visited = {}
    /\ q = <<>>
    /\ hroot = EmptyHierarchy
    /\ inserted = <<>>
    /\ pages_count = 0
    /\ pages = <<>>
    /\ edges = <<>>
    /\ errors = <<>>
    /\ gets = <<>>
    /\ popped = <<>>
    /\ last = Idle
    /\ crashed = FALSE
    /\ d3tree = [name |-> None, value |-> 0]

\* an admitted entry on the scenario's site
ScenarioFetch ==
    /\ LoopRuns
    /\ Verdict(Head(q)) = "admit"
    /\ FetchFrom(ScenarioResponses(Head(q).url))

ScenarioNext ==
    \/ ReadRobots
    \/ SeedFrontier
    \/ ScenarioFetch
    \/ FetchCrash
    \/ ExitLoop
    \/ WriteHierarchy

SpecScenario == ScenarioInit /\ [][ScenarioNext]_vars

----------------------------------------------------------------------------
(* Properties of the crawl *)

PageUrls == {pages[i].url : i \in 1..Len(pages)}

\* the step just taken dequeued an entry
Dequeues == Len(popped') = Len(popped) + 1

\* C1: no URL appears in more than one PageRecord, whatever the site, the
\* fetch outcomes, the robots policy and the sitemap seeding.
C1_UniquePageUrls ==
    \A i, j \in 1..Len(pages) : pages[i].url = pages[j].url => i = j

\* a second frontier entry of a recorded URL was dequeued and skipped
C1_Witness ==
    /\ last.op = "skip_dup"
    /\ last.entry.url \in PageUrls
    /\ Len(pages) >= 2

\* C2: every PageRecord, fetched or placeholder, has depth <= MAX_DEPTH,
\* also when MAX_DEPTH is 0 and the sitemap seeds entries at depth 1.
C2_DepthWithinLimit ==
    \A i \in 1..Len(pages) : pages[i].depth <= MAX_DEPTH

\* with MAX_DEPTH 0 a sitemap-seeded entry was dequeued after the seed's
\* record was written
C2_Witness ==
    /\ MAX_DEPTH = 0
    /\ Len(pages) = 1
    /\ last.op = "skip_depth"
    /\ last.entry.depth = 1
    /\ last.entry.url \in Range(sm_urls)

\* C3: every PageRecord's URL has the seed's scheme and host.
C3_PagesOnSeedOrigin ==
    \A i \in 1..Len(pages) :
        /\ urlparse(pages[i].url).scheme = urlparse(BASE_URL).scheme
        /\ urlparse(pages[i].url).netloc = urlparse(BASE_URL).netloc

\* a sitemap location of another host was dequeued, and the records hold the
\* seed, a sitemap-seeded URL and a link-discovered URL
C3_Witness ==
    /\ \E i \in 1..Len(popped) :
          urlparse(popped[i].url).netloc # urlparse(BASE_URL).netloc
    /\ \E i, j, k \in 1..Len(pages) :
          /\ pages[i].parent_url = None
          /\ pages[j].url \in Range(sm_urls)
          /\ pages[k].url \notin Range(sm_urls) /\ pages[k].depth = 1

\* C4 (as claimed): once reading robots.txt has failed, no URL is marked
\* robots-blocked and every admitted entry is fetched.
C4_FailsOpen ==
    robots_warning =>
        /\ last.op # "blocked"
        /\ \A i \in 1..Len(pages) : pages[i].title # "BLOQUEADA_POR_ROBOTS"
        /\ \A i \in 1..Len(popped) :
              popped[i].url \in visited => popped[i].url \in Range(gets)

\* the edges a fetched page's links give when every same-origin link counts
EdgesOfEveryLink(e, links) ==
    [i \in 1..Len(links) |-> [source |-> e.url, target |-> links[i]]]

\* the links of a fetched page whose target was not visited when the page
\* was finalized (the page itself is visited by then)
FreshLinks(e, links) == SelectSeq(links, LAMBDA t : t \notin visited \cup {e.url})

C6_FetchFailure ==
    /\ [](\A i, j \in 1..Len(errors) : errors[i].url = errors[j].url => i = j)
    /\ [][(Dequeues /\ last'.fetch = "error") =>
            LET e == Head(q)
            IN  /\ errors' = Append(errors, [url |-> e.url])
                /\ pages' = Append(pages,
                      [url |-> e.url, status_code |-> "None", title |-> "SIN_TITULO",
                       meta_description |-> "SIN_DESCRIPCION", canonical |-> None,
                       parent_url |-> e.parent, depth |-> e.depth])
                /\ e.url \notin PageUrls
                /\ q' = Tail(q)
                /\ edges' = edges
                /\ visited' = visited \cup {e.url}
                /\ pc' = "loop"]_vars

\* a fetch failed while entries were left, and a later entry was processed
C6_Witness ==
    /\ Len(errors) = 1
    /\ \E i \in 1..Len(pages) : pages[i].url = errors[1].url /\ i < Len(pages)
    /\ last.op = "fetched"
    /\ last.fetch = "response"

\* C7: a disallowed URL is not fetched, is marked visited, gives no error, no
\* edge and no push, and gives a placeholder PageRecord iff
\* RECORD_BLOCKED_URLS.
C7_RobotsBlocked ==
    [][(Dequeues /\ last'.robots = "deny") =>
         LET e == Head(q)
         IN  /\ gets' = gets
             /\ visited' = visited \cup {e.url}
             /\ errors' = errors
             /\ edges' = edges
             /\ q' = Tail(q)
             /\ pages' = IF RECORD_BLOCKED_URLS
                         THEN Append(pages,
                                [url |-> e.url, status_code |-> "None",
                                 title |-> "BLOQUEADA_POR_ROBOTS",
                                 meta_description |-> "BLOQUEADA_POR_ROBOTS",
                                 canonical |-> None,
                                 parent_url |-> e.parent, depth |-> e.depth])
                         ELSE pages]_vars

\* a parsed robots file disallowed a URL that was recorded, and another that
\* was not fetched is still queued
C7_Witness ==
    /\ rp = "parsed"
    /\ RECORD_BLOCKED_URLS
    /\ last.op = "blocked"
    /\ pages # <<>>
    /\ pages[Len(pages)].title = "BLOQUEADA_POR_ROBOTS"
    /\ last.entry.url \notin Range(gets)
    /\ gets # <<>>

\* C8: the PageRecords never outnumber MAX_PAGES, and a loop that ends
\* normally leaves an empty frontier or exactly MAX_PAGES PageRecords.
C8_MaxPages ==
    /\ ~MAX_PAGES.inf => Len(pages) <= MAX_PAGES.n
    /\ (pc \in {"flush", "done"} /\ ~crashed) =>
          \/ q = <<>>
          \/ ~MAX_PAGES.inf /\ Len(pages) = MAX_PAGES.n

\* the loop ended on the page count with entries left in the frontier
C8_Witness ==
    /\ pc = "flush"
    /\ ~crashed
    /\ q # <<>>
    /\ ~MAX_PAGES.inf
    /\ Len(pages) = MAX_PAGES.n
    /\ MAX_PAGES.n >= 1

\* the locations of the documents that were fetched with status 200: the
\* stripped lines that open with <loc> and close with </loc>, tags removed
SitemapLocations(docs) ==
    {Strip(Remove(Remove(Strip(docs[d].lines[i]), "<loc>"), "</loc>")) :
        <<d, i>> \in {di \in (1..Len(docs)) \X (1..(MaxLines + 1)) :
            /\ docs[di[1]].kind = "response"
            /\ docs[di[1]].status_code = "200"
            /\ di[2] <= Len(docs[di[1]].lines)
            /\ StartsWith(Strip(docs[di[1]].lines[di[2]]), <<"<loc>">>)
            /\ EndsWith(Strip(docs[di[1]].lines[di[2]]), <<"</loc>">>)}}

\* C9: fetch_sitemap_urls returns exactly the locations under the prefix,
\* each once, in ascending order.
C9_SitemapSeeds ==
    pc = "sitemap_returned" =>
        /\ \A i, j \in 1..Len(sm_urls) : i < j => StrLess(sm_urls[i], sm_urls[j])
        /\ Range(sm_urls) = {loc \in SitemapLocations(sm_in.docs) :
                                StartsWith(loc, sm_in.base_prefix)}

\* two sitemaps list the same location, one lists a location outside the
\* prefix, and two locations are returned
C9_Witness ==
    /\ pc = "sitemap_returned"
    /\ Len(sm_urls) = 2
    /\ Len(sm_in.docs) = 2
    /\ \E loc \in SitemapLocations(<<sm_in.docs[1]>>) \cap SitemapLocations(<<sm_in.docs[2]>>) :
          loc \in Range(sm_urls)
    /\ \E loc \in SitemapLocations(sm_in.docs) : loc \notin Range(sm_urls)

\* C10: the frontier starts as the seed followed by the sitemap's URLs as
\* (url, seed, 1), and entries leave it in that order before any
\* link-discovered entry.
C10_SeedsFirst ==
    pc \in {"loop", "flush", "done"} =>
        LET hist == popped \o q
        IN  /\ Len(hist) >= 1 + Len(sm_urls)
            /\ hist[1] = Entry(BASE_URL, None, 0)
            /\ \A i \in 1..Len(sm_urls) : hist[1 + i] = Entry(sm_urls[i], BASE_URL, 1)
            /\ popped = <<>> => Len(q) = 1 + Len(sm_urls)
            /\ \A i \in 1..Len(edges) :
                  \E k \in (2 + Len(sm_urls))..Len(hist) :
                      hist[k].url = edges[i].target /\ hist[k].parent = edges[i].source

\* two sitemap-seeded entries and then a link-discovered entry were dequeued
C10_Witness ==
    /\ Len(sm_urls) = 2
    /\ Len(popped) = 4
    /\ edges # <<>>
    /\ popped[4].parent = edges[1].source
    /\ popped[4].url = edges[1].target

----------------------------------------------------------------------------
(* Properties of the hierarchy *)

\* the non-empty segments of a path, in order
NonEmptySegments(path) == SelectSeq(path, LAMBDA seg : seg # <<>>)

\* the hierarchy after inserting the paths one after the other
RECURSIVE InsertAll(_, _)
InsertAll(h, paths) ==
    IF paths = <<>> THEN h
    ELSE InsertAll(insert_path(h, Head(paths)), Tail(paths))

\* the leaves of a rendered tree, each with the path that leads to it
RECURSIVE d3_leaves(_, _)
d3_leaves(tree, path) ==
    IF "children" \in DOMAIN tree
    THEN UNION {d3_leaves(tree.children[i], Append(path, tree.children[i].name)) :
                    i \in 1..Len(tree.children)}
    ELSE {[path |-> path, value |-> tree.value]}

\* every node of a rendered tree lists its children in ascending order
RECURSIVE ChildrenAscending(_)
ChildrenAscending(tree) ==
    "children" \in DOMAIN tree =>
        /\ \A i, j \in 1..Len(tree.children) :
              i < j => StrLess(tree.children[i].name, tree.children[j].name)
        /\ \A i \in 1..Len(tree.children) : ChildrenAscending(tree.children[i])

\* C11: the paths inserted in any other order give the same hierarchy and the
\* same rendered tree, and every node's children are rendered in ascending
\* lexicographic order of segment name.
C11_InsertsCommute ==
    pc = "rendered" =>
        /\ ChildrenAscending(d3tree)
        /\ \A f \in Permutations(1..Len(inserted)) :
              LET h == InsertAll(EmptyHierarchy, [i \in 1..Len(inserted) |-> inserted[f[i]]])
              IN  /\ h = hroot
                  /\ hierarchy_to_d3(h, <<>>, <<"/">>) = d3tree

\* three different paths were inserted, "p" before "a", and the root is
\* rendered with "a" before "p"
C11_Witness ==
    /\ pc = "rendered"
    /\ Len(inserted) = 3
    /\ Cardinality(Range(inserted)) = 3
    /\ inserted[1] = << <<"p">>, <<"a">> >>
    /\ inserted[2] = << <<"a">> >>
    /\ "children" \in DOMAIN d3tree
    /\ Len(d3tree.children) = 2
    /\ d3tree.children[1].name = <<"a">>

\* the sum of the values of a rendered tree's leaves
RECURSIVE d3_sum(_)
d3_sum(tree) ==
    IF "children" \in DOMAIN tree
    THEN LET sums == [i \in 1..Len(tree.children) |-> d3_sum(tree.children[i])]
             add[i \in 0..Len(sums)] == IF i = 0 THEN 0 ELSE add[i - 1] + sums[i]
         IN  add[Len(sums)]
    ELSE tree.value

\* the inserts whose non-empty segments are exactly the path
InsertsEndingAt(path) ==
    {i \in 1..Len(inserted) : NonEmptySegments(inserted[i]) = path}

\* C12 (as claimed): every leaf of the rendered tree, the root included when
\* it has no children, carries the number of distinct inserted paths whose
\* non-empty segments are the leaf's path.
C12_LeafCountsDistinctPaths ==
    pc = "rendered" =>
        \A leaf \in d3_leaves(d3tree, <<>>) :
            leaf.value = Cardinality({path \in Range(inserted) :
                                         NonEmptySegments(path) = leaf.path})

\* C12 (amended): every leaf below the root carries the number of inserts,
\* repeated ones counted each time, whose non-empty segments are the leaf's
\* path; a root without children carries 0; the leaf values sum to the
\* number of inserts that end at a leaf below the root.
C12_LeafCountsInserts ==
    pc = "rendered" =>
        LET leaves == d3_leaves(d3tree, <<>>)
        IN  /\ \A leaf \in leaves :
                  leaf.value = IF leaf.path = <<>> THEN 0
                               ELSE Cardinality(InsertsEndingAt(leaf.path))
            /\ d3_sum(d3tree) =
                  Cardinality(UNION {InsertsEndingAt(leaf.path) :
                                        leaf \in {l \in leaves : l.path # <<>>}})

\* a path was inserted twice and ends at a leaf, and another inserted path
\* ends at a node that has children
C12_Witness ==
    /\ pc = "rendered"
    /\ \E leaf \in d3_leaves(d3tree, <<>>) :
          /\ leaf.value = 2
          /\ \E i, j \in InsertsEndingAt(leaf.path) : i # j /\ inserted[i] = inserted[j]
    /\ \E i \in 1..Len(inserted) :
          /\ NonEmptySegments(inserted[i]) # <<>>
          /\ children_map(hroot, NonEmptySegments(inserted[i])) # {}

----------------------------------------------------------------------------
(* Properties of the crawl, continued *)

\* the PageRecords of the URLs that were requested
FetchedPages == SelectSeq(pages, LAMBDA rec : rec.url \in Range(gets))

\* C13: after an unexpected failure in the loop no further entry is
\* processed, and the hierarchy document is still written, rendered from
\* exactly the paths of the pages finalized before the failure.
C13_HierarchyAfterCrash ==
    /\ [](/\ inserted = [i \in 1..Len(FetchedPages) |-> PathSegments(FetchedPages[i].url)]
          /\ hroot = InsertAll(EmptyHierarchy, inserted)
          /\ pc = "done" =>
                d3tree = hierarchy_to_d3(InsertAll(EmptyHierarchy, inserted), <<>>,
                                         urlparse(BASE_URL).netloc))
    /\ [][crashed =>
            /\ pc = "flush" /\ pc' = "done"
            /\ UNCHANGED <<q, popped, visited, pages, edges, errors, gets, hroot,
                           inserted, pages_count>>]_vars

\* the loop failed after a page was finalized, with entries left in the
\* frontier, and the hierarchy of that page was written
C13_Witness ==
    /\ pc = "done"
    /\ crashed
    /\ q # <<>>
    /\ Len(inserted) >= 1
    /\ "children" \in DOMAIN d3tree

\* C14: on the scenario's site a crawl that did not fail leaves exactly the
\* PageRecords of the seed (depth 0) and of /p/a (depth 1, parent the seed)
\* and the one EdgeRecord seed -> /p/a; the URL of the other host is never
\* in the frontier or in a record; no entry is ever skipped.
C14_Scenario ==
    /\ \A i \in 1..Len(popped \o q) : (popped \o q)[i].url # OtherHost
    /\ OtherHost \notin visited \cup Range(gets) \cup PageUrls
    /\ \A i \in 1..Len(edges) : edges[i].target # OtherHost /\ edges[i].source # OtherHost
    /\ \A i \in 1..Len(errors) : errors[i].url # OtherHost
    /\ (pc = "loop" /\ q # <<>>) => Verdict(Head(q)) = "admit"
    /\ (pc = "done" /\ ~crashed) =>
          /\ Len(pages) = 2
          /\ pages[1].url = SeedP /\ pages[1].depth = 0 /\ pages[1].parent_url = None
          /\ pages[2].url = PageA /\ pages[2].depth = 1 /\ pages[2].parent_url = SeedP
          /\ edges = <<[source |-> SeedP, target |-> PageA]>>
          /\ q = <<>>

\* the crawl of the scenario's site ended without a failure, after two
\* requests
C14_Witness ==
    /\ pc = "done"
    /\ ~crashed
    /\ gets = <<SeedP, PageA>>
    /\ pages_count = 2

\* C15: the loop is left after finitely many iterations: every iteration
\* removes the entry at the head, only a fetched page pushes entries, and a
\* URL is added to visited only once.
C15_LoopTerminates ==
    /\ <>(pc \in {"flush", "done"})
    /\ [][(pc = "loop" /\ pc' = "loop") =>
            /\ popped' = Append(popped, Head(q))
            /\ Len(q') >= Len(q) - 1
            /\ Len(q') >= Len(q) => last'.op = "fetched" /\ last'.fetch = "response"
            /\ visited' # visited =>
                  Head(q).url \notin visited /\ visited' = visited \cup {Head(q).url}]_vars

\* the loop ended on an empty frontier after a fetched page had pushed an
\* entry and three entries had been dequeued
C15_Witness ==
    /\ pc = "flush"
    /\ ~crashed
    /\ q = <<>>
    /\ edges # <<>>
    /\ Len(popped) >= 3

\* every entry that was ever in the frontier, in the order of the appends
Enqueued == popped \o q

\* C16: entries leave the frontier in the order they entered it, and the
\* depths of the dequeued entries and of the PageRecords never decrease,
\* with or without sitemap seeds.
C16_FifoDepths ==
    /\ [](/\ \A i, j \in 1..Len(Enqueued) :
                i < j => Enqueued[i].depth <= Enqueued[j].depth
          /\ \A i, j \in 1..Len(pages) : i < j => pages[i].depth <= pages[j].depth)
    /\ [][pc = "loop" =>
            /\ Len(Enqueued') >= Len(Enqueued)
            /\ SubSeq(Enqueued', 1, Len(Enqueued)) = Enqueued
            /\ popped' = popped \/ (q # <<>> /\ popped' = Append(popped, Head(q)))]_vars

\* with sitemap seeds in the frontier, an entry of depth 2 was dequeued after
\* entries of depth 0 and 1
C16_Witness ==
    /\ sm_urls # <<>>
    /\ Len(popped) >= 4
    /\ popped[Len(popped)].depth = 2
    /\ \E i \in 1..Len(popped) : popped[i].depth = 1 /\ popped[i].url \notin Range(sm_urls)

\* C17: visited only grows, and only by the URL of the entry that is being
\* finalized (robots-blocked or requested) at its dequeue; a URL that is
\* already visited when its entry is dequeued is skipped and gives no record.
C17_VisitedAtDequeue ==
    /\ [](visited \subseteq {popped[i].url : i \in 1..Len(popped)})
    /\ [][/\ visited \subseteq visited'
          /\ visited' # visited =>
                /\ Dequeues
                /\ visited' = visited \cup {Head(q).url}
                /\ last'.op \in {"blocked", "fetched"}
          /\ (Dequeues /\ Head(q).url \in visited) =>
                /\ last'.op \in {"skip_depth", "skip_origin", "skip_dup"}
                /\ UNCHANGED <<visited, pages, edges, errors, gets, pages_count, hroot>>
                /\ q' = Tail(q)]_vars

\* a URL entered the frontier from the sitemap and again from a link of the
\* seed page; the first entry was processed and the second, dequeued later,
\* was skipped as a duplicate
C17_Witness ==
    /\ last.op = "skip_dup"
    /\ last.entry = popped[Len(popped)]
    /\ last.entry.depth = 1
    /\ \E i \in 1..(Len(popped) - 1) :
          /\ popped[i].url = last.entry.url
          /\ popped[i].depth = 1
          /\ popped[i].url \in Range(sm_urls)
          /\ popped[i].url \in PageUrls
    /\ \E k \in 1..Len(edges) :
          edges[k].source = BASE_URL /\ edges[k].target = last.entry.url

\* C18: with RECORD_BLOCKED_URLS, between two iterations of a loop that has
\* not failed, visited is the set of the URLs that have a PageRecord, and
\* pages_count is its size and the number of PageRecords.
C18_VisitedIsRecorded ==
    (RECORD_BLOCKED_URLS /\ ~crashed) =>
        /\ visited = PageUrls
        /\ pages_count = Cardinality(visited)
        /\ pages_count = Len(pages)

\* with RECORD_BLOCKED_URLS, a blocked URL and a requested URL were recorded
C18_Witness ==
    /\ RECORD_BLOCKED_URLS
    /\ pc = "loop"
    /\ last.op = "blocked"
    /\ \E i \in 1..Len(pages) : pages[i].url \in Range(gets)
    /\ \E i \in 1..Len(pages) : pages[i].url \notin Range(gets)
    /\ Cardinality(visited) >= 2

\* the entry is out of depth, of another origin, or already visited
Rejected(entry) ==
    \/ entry.depth > MAX_DEPTH
    \/ urlparse(entry.url).scheme # urlparse(BASE_URL).scheme
    \/ urlparse(entry.url).netloc # urlparse(BASE_URL).netloc
    \/ entry.url \in visited

----------------------------------------------------------------------------
(* Properties of the hierarchy, continued *)

\* a node's counter, 0 for a node that does not exist yet
CountOf(h, node) == IF node \in DOMAIN h THEN h[node] ELSE 0

\* node is a prefix of the path
IsPrefix(node, path) == Len(node) <= Len(path) /\ SubSeq(path, 1, Len(node)) = node

\* the step just taken was an insert_path call
Inserts == Len(inserted') = Len(inserted) + 1

\* C20 (as claimed): an insert increments the counter of the node its path
\* ends at and no other; a node's counter is the number of inserted paths
\* that end at it.
C20_OnlyTerminalCounted ==
    [][Inserts =>
         LET segs == NonEmptySegments(inserted'[Len(inserted')])
         IN  \A node \in DOMAIN hroot' :
                hroot'[node] = CountOf(hroot, node) +
                    (IF node = segs /\ node # <<>> THEN 1 ELSE 0)]_vars

\* C20 (amended): an insert increments the counter of every node on its
\* path, the node it ends at and each ancestor below the root, and never the
\* root; a node's counter is the number of inserts whose path passes through
\* or ends at it.
C20_EveryNodeOnPathCounted ==
    /\ [](/\ hroot[<<>>] = 0
          /\ \A node \in DOMAIN hroot \ {<<>>} :
                hroot[node] = Cardinality({i \in 1..Len(inserted) :
                                  IsPrefix(node, NonEmptySegments(inserted[i]))}))
    /\ [][Inserts =>
            LET segs == NonEmptySegments(inserted'[Len(inserted')])
            IN  /\ DOMAIN hroot' = DOMAIN hroot \cup
                                      {SubSeq(segs, 1, k) : k \in 1..Len(segs)}
                /\ \A node \in DOMAIN hroot' :
                      hroot'[node] = CountOf(hroot, node) +
                          (IF IsPrefix(node, segs) /\ node # <<>> THEN 1 ELSE 0)]_vars

\* the path p/a was inserted after the path p: the node p counts 2, the node
\* p/a counts 1
C20_Witness ==
    /\ pc = "hierarchy"
    /\ Len(inserted) >= 2
    /\ inserted[Len(inserted)] = << <<"p">>, <<"a">> >>
    /\ inserted[1] = << <<"p">> >>
    /\ hroot[<< <<"p">> >>] = Len(inserted)
    /\ hroot[<< <<"p">>, <<"a">> >>] = 1

----------------------------------------------------------------------------
(* Properties of the crawl: hierarchy inserts, edges and the depth limit *)

\* the PageRecords of the URLs that were not requested: the placeholders of
\* the robots-blocked URLs
BlockedPages == SelectSeq(pages, LAMBDA rec : rec.url \notin Range(gets))

\* C21 (as claimed): between two iterations of a loop that has not failed,
\* the paths inserted into the hierarchy are the paths of the PageRecords'
\* URLs, one insert for each record, blocked or requested.
C21_InsertForEveryPageRecord ==
    ~crashed =>
        inserted = [i \in 1..Len(pages) |-> PathSegments(pages[i].url)]

\* C21 (amended): between two iterations of a loop that has not failed, the
\* paths inserted are the paths of the requested URLs, one insert for each,
\* answered or failed; the placeholder record of a robots-blocked URL has no
\* insert.
C21_InsertForEveryRequest ==
    ~crashed =>
        /\ inserted = [i \in 1..Len(gets) |-> PathSegments(gets[i])]
        /\ \A i, j \in 1..Len(gets) : gets[i] = gets[j] => i = j
        /\ Range(gets) \subseteq PageUrls
        /\ Len(pages) = Len(inserted) + Len(BlockedPages)

\* a robots-blocked URL and a URL whose request failed were both recorded,
\* and only the second was inserted
C21_Witness ==
    /\ pc = "loop"
    /\ ~crashed
    /\ Len(BlockedPages) = 1
    /\ Len(errors) = 1
    /\ Len(pages) = 2
    /\ Len(inserted) = 1
    /\ inserted[1] = PathSegments(errors[1].url)

\* the frontier entries that came from links: all but the seed's and the
\* sitemap's, in the order of the appends
LinkEntries == SubSeq(Enqueued, 2 + Len(sm_urls), Len(Enqueued))

C23_DepthTestAtDequeue ==
    /\ [](\A i \in 1..Len(Enqueued) : Enqueued[i].depth <= MAX_DEPTH + 1)
    /\ [][(Dequeues /\ last'.op = "fetched" /\ Head(q).depth = MAX_DEPTH) =>
            LET e     == Head(q)
                fresh == FreshLinks(e, last'.links)
            IN  /\ Len(q') = Len(q) - 1 + Len(fresh)
                /\ Len(edges') = Len(edges) + Len(fresh)
                /\ \A i \in 1..Len(fresh) :
                      /\ q'[Len(q) - 1 + i] = Entry(fresh[i], e.url, MAX_DEPTH + 1)
                      /\ edges'[Len(edges) + i] = [source |-> e.url, target |-> fresh[i]]]_vars
    /\ [][(Dequeues /\ Head(q).depth = MAX_DEPTH + 1) =>
            /\ last'.op = "skip_depth"
            /\ UNCHANGED <<pages, visited, gets, edges>>]_vars

\* the crawl ended on an empty frontier with an edge whose target was
\* dequeued at depth MAX_DEPTH + 1, skipped, and has no PageRecord
C23_Witness ==
    /\ pc = "done"
    /\ ~crashed
    /\ q = <<>>
    /\ \E k \in 1..Len(edges) :
          /\ edges[k].target \notin PageUrls
          /\ \E i \in 1..Len(popped) :
                /\ popped[i].url = edges[k].target
                /\ popped[i].parent = edges[k].source
                /\ popped[i].depth = MAX_DEPTH + 1

====
